---- MODULE Spec2Model ----
(***************************************************************************)
(* Task lifecycle, broadcast completion and thread-card upsert of the      *)
(* Slack task application (latest, DB-backed variant: the second app of    *)
(* src/unnamed/part_000).                                                  *)
(*                                                                         *)
(* Every Slack trigger is handled by an async handler.  A handler is a     *)
(* request r with a program counter req[r].pc; every step of the model is  *)
(* one awaited call of the handler that reads or writes shared state (a    *)
(* SQL statement, or a Slack Web API call), so two requests interleave     *)
(* exactly at the handler's awaits.                                        *)
(***************************************************************************)
EXTENDS Integers, Sequences, FiniteSets, TLC

\* ------------------------------------------------------------------ bounds
MaxTasks == 1
MaxDupTasks == 2
MaxReq == 2
MaxRequests == 3
MaxCount == 2

\* ------------------------------------------------------------------ values
Null == "null"
NullCount == 0 - 1

Users == {"u1", "u2", "u3"}
TaskIds == 1..MaxTasks
Reqs == 1..MaxReq

\* who opens task_modal, whom the users_select can name, what a usergroup expands to
ModalActors == {"u1"}
SelectableUsers == {"u2", "u3"}
Groups == {"g1"}
GroupExpansions == {{}, {"u3"}}

DueDates == {"2026-04-25"}
\* todayJstYmd() when the reminder job runs
Today == "2026-04-25"
Contents == {"t1", "t2"}
Views == {"detail_modal", "list_detail_modal"}

\* the message a task was created from: (channel_id, message_ts); a channel whose id
\* starts with "D" is a direct-message channel
Sources == {[channel_id |-> "C1", message_ts |-> "m1", thread_ts |-> "m1"],
            [channel_id |-> "C1", message_ts |-> "m3", thread_ts |-> "m1"],
            [channel_id |-> "D1", message_ts |-> "m2", thread_ts |-> "m2"]}
\* the workspaces a payload can name; tasks are created in HomeTeam
Teams == {"T1", "T2"}
HomeTeam == "T1"

\* the users whose payloads name a team: everyone in HomeTeam, the task creators (who
\* may do everything to their tasks) with the other team
TeamUsers(teamId) == IF teamId = HomeTeam THEN Users ELSE ModalActors

\* the messages the task modal is opened from (one channel message, one DM message)
ModalSources == {src \in Sources : src.thread_ts = src.message_ts}

CardKeys == {<<src.channel_id, src.message_ts>> : src \in Sources}
DMChannels == {"D1"}

StatusSelectOptions == {"in_progress", "waiting", "done"}
Terminal == {"done", "cancelled"}

VARIABLES
    tasks,             \* table tasks: id -> row
    task_targets,      \* table task_targets: task id -> set of user ids
    task_completions,  \* table task_completions: task id -> set of user ids
    thread_cards,      \* table thread_cards: key -> rows (card_ts), in insertion order
    posts,             \* Slack: card messages posted by chat.postMessage; ts i is the card of message posts[i]
    edits,             \* Slack: edits[i] = number of chat.update calls on card message i
    shown,             \* Slack: shown[i] = the blocks card message i displays
    dms,               \* Slack: task id -> number of requester confirmation DMs sent
    req,               \* handlers in flight
    started            \* number of triggers received so far

vars == <<tasks, task_targets, task_completions, thread_cards, posts, edits, shown, dms, req, started>>

\* ------------------------------------------------------------------ requests
\* pc: the await the handler is at.  op, user, taskId: the trigger.  view, nextStatus,
\* nextAssignee, nextDue, nextContent, selectedGroupIds: the trigger's payload, dropped
\* once the handler has used it.  targetList, fresh_status, fresh_notified, key, existing, cardTs: the
\* handler's locals, dropped when the handler no longer reads them.  blocks: the card
\* blocks the handler has built.  due_rows: the rows the reminder job has still to visit.
IdleReq ==
    [pc |-> "idle", op |-> "none", user |-> Null, taskId |-> 0, view |-> Null,
     nextStatus |-> Null, nextAssignee |-> Null, nextDue |-> Null, nextContent |-> Null,
     targetList |-> {}, selectedGroupIds |-> {}, key |-> <<>>, fresh_status |-> Null, fresh_notified |-> FALSE,
     existing |-> 0, cardTs |-> 0, patch |-> {}, blocks |-> Null, due_rows |-> {}, msg |-> <<>>, before |-> Null, changes |-> Null,
     teamId |-> Null, outcome |-> Null]

\* an action or view submission that names a task: p.teamId || body.team?.id
TriggerIn(teamId, op, user, taskId) ==
    [IdleReq EXCEPT !.op = op, !.user = user, !.taskId = taskId, !.teamId = teamId]

Trigger(op, user, taskId) == [IdleReq EXCEPT !.op = op, !.user = user, !.taskId = taskId]

\* the handler has returned (or its outer catch has logged the error)
Finish(rq, out) ==
    [IdleReq EXCEPT !.pc = "done", !.op = rq.op, !.user = rq.user, !.taskId = rq.taskId,
                    !.teamId = rq.teamId, !.outcome = out]

Init ==
    /\ tasks = <<>>
    /\ task_targets = [t \in TaskIds |-> {}]
    /\ task_completions = [t \in TaskIds |-> {}]
    /\ thread_cards = [k \in CardKeys |-> <<>>]
    /\ posts = <<>>
    /\ edits = <<>>
    /\ shown = <<>>
    /\ dms = [t \in TaskIds |-> 0]
    /\ req = [r \in Reqs |-> IdleReq]
    /\ started = 0

\* A trigger is accepted into the lowest free slot (slots are interchangeable).
CanStart(r) ==
    /\ req[r].pc = "idle"
    /\ \A q \in Reqs : q < r => req[q].pc # "idle"
    /\ started < MaxRequests

\* task ids are a bounded resource of the model: a creation is accepted while an id is free
FreeTaskIds ==
    Cardinality(DOMAIN task_targets) - Cardinality(DOMAIN tasks)
        - Cardinality({q \in Reqs : req[q].pc = "rc_create"})

\* ------------------------------------------------------------------ DB: tasks
\* dbGetTaskById returns the row or null; TaskExists is its "row found" test
TaskExists(taskId) == taskId \in DOMAIN tasks

dbGetTaskById(taskId) == tasks[taskId]

\* variation: the lookup by id alone
TaskInTeam_Mut(teamId, taskId) == TaskExists(taskId)

\* SELECT * FROM tasks WHERE team_id=$1 AND id=$2 LIMIT 1 returns a row
TaskInTeam(teamId, taskId) == TaskExists(taskId) /\ tasks[taskId].team_id = teamId

dbCreateTask(taskId, task) == tasks @@ (taskId :> task)

\* SELECT * FROM tasks WHERE channel_id=$2 AND message_ts=$3 ... LIMIT 1: the rows found
dbGetTaskBySource(channelId, messageTs) ==
    {t \in DOMAIN tasks : tasks[t].channel_id = channelId /\ tasks[t].message_ts = messageTs}

\* variation: completed_at cleared by every status other than 'done'
StampCompletedAt_Mut(status, completed_at) == status = "done"

StampCompletedAt(status, completed_at) == IF status = "done" THEN TRUE ELSE completed_at

\* variation: an UPDATE that also resets task_type to the column default
dbUpdateStatus_Mut(taskId, status) ==
    [tasks EXCEPT ![taskId].status = status,
                  ![taskId].completed_at = StampCompletedAt(status, @),
                  ![taskId].task_type = "personal"]

dbUpdateStatus(taskId, status) ==
    [tasks EXCEPT ![taskId].status = status,
                  ![taskId].completed_at = StampCompletedAt(status, @)]

Coalesce(a, b) == IF a # Null THEN a ELSE b

\* variation: the due date treated like the other columns (kept when the patch has none)
dbUpdateTaskContent_Mut(taskId, assignee_id, due_date, description) ==
    [tasks EXCEPT ![taskId].assignee_id = Coalesce(assignee_id, @),
                  ![taskId].due_date = Coalesce(due_date, @),
                  ![taskId].description = Coalesce(description, @)]

dbUpdateTaskContent(taskId, assignee_id, due_date, description) ==
    [tasks EXCEPT ![taskId].assignee_id = Coalesce(assignee_id, @),
                  ![taskId].due_date = due_date,
                  ![taskId].description = Coalesce(description, @)]

\* a patch object: the set of its <<field, value>> pairs; a field may be missing
PatchFields == {"assignee_id", "due_date", "description"}

HasField(patch, f) == \E p \in patch : p[1] = f

\* patch?.f ?? null: a missing field reads as null
PatchField(patch, f) ==
    IF HasField(patch, f) THEN (CHOOSE p \in patch : p[1] = f)[2] ELSE Null

\* the parameters dbUpdateTaskContent binds from its patch argument
dbUpdateTaskContentPatch(taskId, patch) ==
    dbUpdateTaskContent(taskId, PatchField(patch, "assignee_id"),
                        PatchField(patch, "due_date"), PatchField(patch, "description"))

dbCancelTask(taskId, actorUserId) ==
    [tasks EXCEPT ![taskId].status = "cancelled",
                  ![taskId].cancelled_at = TRUE,
                  ![taskId].cancelled_by_user_id = actorUserId]

dbUpdateBroadcastCounts(taskId, completedCount, totalCount) ==
    [tasks EXCEPT ![taskId].completed_count = completedCount,
                  ![taskId].total_count = IF @ # NullCount THEN @ ELSE totalCount]

SetNotifiedIfNull(taskId) ==
    [tasks EXCEPT ![taskId].notified_at = TRUE]

\* ------------------------------------------------------------------ DB: targets, completions
\* variation: the snapshot insert records nothing
dbInsertTaskTargets_Mut(taskId, userIds) == task_targets

dbInsertTaskTargets(taskId, userIds) ==
    [task_targets EXCEPT ![taskId] = @ \cup userIds]

\* variation: every user counts as a target
dbIsUserTarget_Mut(taskId, userId) == TRUE

dbIsUserTarget(taskId, userId) == userId \in task_targets[taskId]

dbUpsertCompletion(taskId, userId) ==
    [task_completions EXCEPT ![taskId] = @ \cup {userId}]

dbCountTargets(taskId) == Cardinality(task_targets[taskId])

dbCountCompletions(taskId) == Cardinality(task_completions[taskId])

\* ------------------------------------------------------------------ DB: thread cards
\* SELECT ... LIMIT 1 without ORDER BY: any row with the key
dbGetThreadCardRows(key) == {thread_cards[key][i] : i \in 1..Len(thread_cards[key])}

UpdateCardRows(key, cardTs) ==
    [thread_cards EXCEPT ![key] = [i \in 1..Len(@) |-> cardTs]]

\* variation: the INSERT records nothing
InsertCardRow_Mut(key, cardTs) == thread_cards

InsertCardRow(key, cardTs) ==
    [thread_cards EXCEPT ![key] = Append(@, cardTs)]

\* ------------------------------------------------------------------ thread card (upsert)
\* variation: a card that always shows the status a task is created with
buildThreadCardBlocks_Mut(task) == "in_progress"

\* buildThreadCardBlocks({ teamId, task }): the card's status line
buildThreadCardBlocks(task) == task.status

\* the fixed blocks complete_task (personal) and cancel_task send
DoneBlocks == "done"

CancelBlocks == "cancelled"

\* the confirmation card reaction_added sends: "create the task?" with its buttons
PromptBlocks == "prompt"

\* variation: the handlers without their startsWith("D") test
HasCardSource_Mut(task) ==
    /\ task.channel_id # Null
    /\ task.message_ts # Null

HasCardSource(task) ==
    /\ task.channel_id # Null
    /\ task.message_ts # Null
    /\ task.channel_id \notin DMChannels

\* variation: the card is keyed by the thread it is posted in
CardKey_Mut(channelId, parentTs, threadTs) ==
    <<channelId, IF threadTs # Null THEN threadTs ELSE parentTs>>

\* upsertThreadCard: the row is looked up and recorded under parentTs; threadTs only
\* says where the message is posted
CardKey(channelId, parentTs, threadTs) == <<channelId, parentTs>>

\* threadRootTs = m?.thread_ts || m?.ts || msgTs: the thread the message is in
ThreadRootTs(channelId, msgTs) ==
    (CHOOSE src \in Sources : src.channel_id = channelId /\ src.message_ts = msgTs).thread_ts

\* the handlers' "if (channel_id && message_ts) ... if (!startsWith('D')) upsertThreadCard"
ToCardIn(rq, task, blocks, threadTs) ==
    IF HasCardSource(task)
    THEN [IdleReq EXCEPT !.pc = "uc_get", !.op = rq.op, !.taskId = rq.taskId,
                         !.key = CardKey(task.channel_id, task.message_ts, threadTs),
                         !.msg = <<task.channel_id, task.message_ts>>, !.blocks = blocks]
    ELSE Finish(rq, "ok")

\* the task handlers pass no threadTs
ToCard(rq, task, blocks) == ToCardIn(rq, task, blocks, Null)

\* variation: the lookup never reports a recorded card
ExistingCardTs_Mut(rows, pick) == 0

ExistingCardTs(rows, pick) == IF rows = {} THEN 0 ELSE pick

\* const existing = await dbGetThreadCard(teamId, channelId, parentTs);
\* if (existing?.card_ts) ... else ...
UpsertGet(r) ==
    /\ req[r].pc = "uc_get"
    /\ LET rows == dbGetThreadCardRows(req[r].key) IN
       \E pick \in (IF rows = {} THEN {0} ELSE rows) :
          req' = [req EXCEPT ![r].existing = ExistingCardTs(rows, pick),
                             ![r].pc = IF ExistingCardTs(rows, pick) # 0
                                       THEN "uc_update" ELSE "uc_post"]
    /\ UNCHANGED <<tasks, task_targets, task_completions, thread_cards, posts, edits, shown, dms, started>>

\* variation: a failed edit falls back to posting a new card
UpsertUpdate_Mut(r) ==
    /\ req[r].pc = "uc_update"
    /\ \/ /\ edits' = [edits EXCEPT ![req[r].existing] = @ + 1]
          /\ shown' = [shown EXCEPT ![req[r].existing] = req[r].blocks]
          /\ req' = [req EXCEPT ![r] = Finish(@, "ok")]
       \/ /\ UNCHANGED <<edits, shown>>
          /\ req' = [req EXCEPT ![r].pc = "uc_post"]
    /\ UNCHANGED <<tasks, task_targets, task_completions, thread_cards, posts, dms, started>>

\* await client.chat.update({ ts: existing.card_ts }); a failed call throws
UpsertUpdate(r) ==
    /\ req[r].pc = "uc_update"
    /\ \/ /\ edits' = [edits EXCEPT ![req[r].existing] = @ + 1]
          /\ shown' = [shown EXCEPT ![req[r].existing] = req[r].blocks]
          /\ req' = [req EXCEPT ![r] = Finish(@, "ok")]
       \/ /\ UNCHANGED <<edits, shown>>
          /\ req' = [req EXCEPT ![r] = Finish(@, "card_error")]
    /\ UNCHANGED <<tasks, task_targets, task_completions, thread_cards, posts, dms, started>>

\* const res = await client.chat.postMessage(...); a failed call throws
UpsertPost(r) ==
    /\ req[r].pc = "uc_post"
    /\ \/ /\ posts' = Append(posts, req[r].msg)
          /\ edits' = Append(edits, 0)
          /\ shown' = Append(shown, req[r].blocks)
          /\ req' = [req EXCEPT ![r].cardTs = Len(posts) + 1, ![r].blocks = Null,
                                ![r].pc = "uc_dbget"]
       \/ /\ UNCHANGED <<posts, edits, shown>>
          /\ req' = [req EXCEPT ![r] = Finish(@, "card_error")]
    /\ UNCHANGED <<tasks, task_targets, task_completions, thread_cards, dms, started>>

\* dbUpsertThreadCard: const existing = await dbGetThreadCard(...)
UpsertDbGet(r) ==
    /\ req[r].pc = "uc_dbget"
    /\ LET rows == dbGetThreadCardRows(req[r].key) IN
       \E pick \in (IF rows = {} THEN {0} ELSE rows) :
          req' = [req EXCEPT ![r].existing = ExistingCardTs(rows, pick), ![r].pc = "uc_dbwrite"]
    /\ UNCHANGED <<tasks, task_targets, task_completions, thread_cards, posts, edits, shown, dms, started>>

\* dbUpsertThreadCard: UPDATE when a row was found, INSERT otherwise.  The schema is
\* not part of the source: with a unique index on the key a second INSERT throws,
\* without one it adds a second row.
UpsertDbWrite(r) ==
    /\ req[r].pc = "uc_dbwrite"
    /\ IF req[r].existing # 0
       THEN /\ thread_cards' = UpdateCardRows(req[r].key, req[r].cardTs)
            /\ req' = [req EXCEPT ![r] = Finish(@, "ok")]
       ELSE \/ /\ thread_cards' = InsertCardRow(req[r].key, req[r].cardTs)
               /\ req' = [req EXCEPT ![r] = Finish(@, "ok")]
            \/ /\ thread_cards[req[r].key] # <<>>
               /\ thread_cards' = thread_cards
               /\ req' = [req EXCEPT ![r] = Finish(@, "card_error")]
    /\ UNCHANGED <<tasks, task_targets, task_completions, posts, edits, shown, dms, started>>

\* ------------------------------------------------------------------ task_modal (create)
\* variation: the classification without its "no group selected" test
IsPersonal_Mut(targetList, selectedGroupIds) == Cardinality(targetList) = 1

IsPersonal(targetList, selectedGroupIds) ==
    Cardinality(targetList) = 1 /\ selectedGroupIds = {}

TaskType(targetList, selectedGroupIds) ==
    IF IsPersonal(targetList, selectedGroupIds) THEN "personal" ELSE "broadcast"

NewTask(actorUserId, requesterUserId, targetList, selectedGroupIds, due, src) ==
    [team_id |-> HomeTeam,
     task_type |-> TaskType(targetList, selectedGroupIds),
     requester_user_id |-> requesterUserId,
     created_by_user_id |-> actorUserId,
     assignee_id |-> IF IsPersonal(targetList, selectedGroupIds)
                     THEN CHOOSE u \in targetList : TRUE ELSE Null,
     status |-> "in_progress",
     due_date |-> due,
     description |-> "t1",
     total_count |-> IF IsPersonal(targetList, selectedGroupIds)
                     THEN NullCount ELSE Cardinality(targetList),
     completed_count |-> 0,
     notified_at |-> FALSE,
     completed_at |-> FALSE,
     cancelled_at |-> FALSE,
     cancelled_by_user_id |-> Null,
     channel_id |-> src.channel_id,
     message_ts |-> src.message_ts]

\* app.view("task_modal"): validation, group expansion, dbCreateTask
TaskModal(r) ==
    /\ CanStart(r)
    /\ started' = started + 1
    /\ \E actor \in ModalActors, selectedUsers \in SUBSET SelectableUsers,
          selectedGroupIds \in SUBSET Groups, due \in DueDates \cup {Null}, src \in ModalSources :
       \E groupUsers \in (IF selectedGroupIds = {} THEN {{}} ELSE GroupExpansions) :
          LET rq == Trigger("task_modal", actor, 0)
              targetList == selectedUsers \cup groupUsers
              taskId == Cardinality(DOMAIN tasks) + 1
              task == NewTask(actor, actor, targetList, selectedGroupIds, due, src)
          IN IF selectedUsers = {} /\ selectedGroupIds = {}
             THEN /\ req' = [req EXCEPT ![r] = Finish(rq, "errors")]
                  /\ tasks' = tasks
             ELSE /\ FreeTaskIds > 0
                  /\ tasks' = dbCreateTask(taskId, task)
                  /\ req' = [req EXCEPT ![r] =
                        IF task.task_type = "broadcast"
                        THEN [rq EXCEPT !.taskId = taskId, !.targetList = targetList,
                                        !.selectedGroupIds = selectedGroupIds,
                                        !.blocks = buildThreadCardBlocks(task),
                                        !.pc = "tm_targets"]
                        ELSE [ToCard([rq EXCEPT !.taskId = taskId], task,
                                     buildThreadCardBlocks(task))
                                 EXCEPT !.targetList = targetList,
                                        !.selectedGroupIds = selectedGroupIds]]
    /\ UNCHANGED <<task_targets, task_completions, thread_cards, posts, edits, shown, dms>>

\* await dbInsertTaskTargets(teamId, taskId, targetList)
TaskModalTargets(r) ==
    /\ req[r].pc = "tm_targets"
    /\ task_targets' = dbInsertTaskTargets(req[r].taskId, req[r].targetList)
    /\ req' = [req EXCEPT ![r].pc = "tm_counts", ![r].targetList = {},
                           ![r].selectedGroupIds = {}]
    /\ UNCHANGED <<tasks, task_completions, thread_cards, posts, edits, shown, dms, started>>

\* const total = await dbCountTargets(...); await dbUpdateBroadcastCounts(teamId, taskId, 0, total);
\* the card blocks are built from the row dbCreateTask returned
TaskModalCounts(r) ==
    /\ req[r].pc = "tm_counts"
    /\ tasks' = dbUpdateBroadcastCounts(req[r].taskId, 0, dbCountTargets(req[r].taskId))
    /\ req' = [req EXCEPT ![r] = ToCard(@, tasks[req[r].taskId], @.blocks)]
    /\ UNCHANGED <<task_targets, task_completions, thread_cards, posts, edits, shown, dms, started>>

\* ------------------------------------------------------------------ reaction flow
\* app.event("reaction_added"): const existingCard = await dbGetThreadCard(...);
\* if (existingCard?.card_ts) return;
ReactionAdded(r) ==
    /\ CanStart(r)
    /\ started' = started + 1
    /\ \E actor \in ModalActors, src \in Sources :
          LET rq == [Trigger("reaction_added", actor, 0)
                        EXCEPT !.key = <<src.channel_id, src.message_ts>>]
              rows == dbGetThreadCardRows(rq.key)
          IN \E pick \in (IF rows = {} THEN {0} ELSE rows) :
                req' = [req EXCEPT ![r] =
                    IF ExistingCardTs(rows, pick) # 0 THEN Finish(rq, "ignored")
                    ELSE [rq EXCEPT !.pc = "ra_task"]]
    /\ UNCHANGED <<tasks, task_targets, task_completions, thread_cards, posts, edits, shown, dms>>

\* const existingTask = await dbGetTaskBySource(...); if (existingTask?.id) ... return;
\* then the confirmation card: if (!channelId.startsWith("D")) await upsertThreadCard(...)
ReactionTask(r) ==
    /\ req[r].pc = "ra_task"
    /\ req' = [req EXCEPT ![r] =
          IF dbGetTaskBySource(req[r].key[1], req[r].key[2]) # {} THEN Finish(@, "already")
          ELSE ToCardIn(@, [channel_id |-> req[r].key[1], message_ts |-> req[r].key[2]],
                        PromptBlocks, ThreadRootTs(req[r].key[1], req[r].key[2]))]
    /\ UNCHANGED <<tasks, task_targets, task_completions, thread_cards, posts, edits, shown, dms, started>>

\* the button reaction_task_confirm_create is part of the confirmation card
PromptShown(key) ==
    \E i \in 1..Len(posts) : posts[i] = key /\ shown[i] = PromptBlocks

\* the row reaction_task_confirm_create hands to dbCreateTask
ReactionNewTask(actorUserId, requesterUserId, assigneeId, dueYmd, key) ==
    [team_id |-> HomeTeam,
     task_type |-> "personal",
     requester_user_id |-> requesterUserId,
     created_by_user_id |-> actorUserId,
     assignee_id |-> assigneeId,
     status |-> "in_progress",
     due_date |-> dueYmd,
     description |-> "t1",
     total_count |-> NullCount,
     completed_count |-> 0,
     notified_at |-> FALSE,
     completed_at |-> FALSE,
     cancelled_at |-> FALSE,
     cancelled_by_user_id |-> Null,
     channel_id |-> key[1],
     message_ts |-> key[2]]

\* app.action("reaction_task_confirm_create"): const existing = await
\* dbGetTaskBySource(...); if (existing?.id) return;
ReactionConfirmCreate(r) ==
    /\ CanStart(r)
    /\ started' = started + 1
    /\ \E actor \in ModalActors, assigneeId \in SelectableUsers, dueYmd \in DueDates,
          key \in CardKeys :
          LET rq == [Trigger("reaction_task_confirm_create", actor, 0) EXCEPT !.key = key]
          IN /\ PromptShown(key)
             /\ FreeTaskIds > 0 \/ dbGetTaskBySource(key[1], key[2]) # {}
             /\ req' = [req EXCEPT ![r] =
                    IF dbGetTaskBySource(key[1], key[2]) # {} THEN Finish(rq, "already")
                    ELSE [rq EXCEPT !.pc = "rc_create", !.nextAssignee = assigneeId,
                                    !.nextDue = dueYmd]]
    /\ UNCHANGED <<tasks, task_targets, task_completions, thread_cards, posts, edits, shown, dms>>

\* const created = await dbCreateTask({...}); the card is replaced by the task card
ReactionCreate(r) ==
    /\ req[r].pc = "rc_create"
    /\ LET taskId == Cardinality(DOMAIN tasks) + 1
           created == ReactionNewTask(req[r].user, req[r].user, req[r].nextAssignee,
                                      req[r].nextDue, req[r].key)
       IN /\ tasks' = dbCreateTask(taskId, created)
          /\ req' = [req EXCEPT ![r] =
                 ToCardIn([@ EXCEPT !.taskId = taskId], created, buildThreadCardBlocks(created),
                          ThreadRootTs(req[r].key[1], req[r].key[2]))]
    /\ UNCHANGED <<task_targets, task_completions, thread_cards, posts, edits, shown, dms, started>>

\* ------------------------------------------------------------------ complete_task
\* const task = await dbGetTaskById(teamId, taskId); if (!task) return;
\* if (task.task_type === "broadcast") ... else personal
CompleteTask(r) ==
    /\ CanStart(r)
    /\ started' = started + 1
    /\ \E teamId \in Teams : \E user \in TeamUsers(teamId), taskId \in TaskIds, view \in Views :
          LET rq == TriggerIn(teamId, "complete_task", user, taskId)
          IN req' = [req EXCEPT ![r] =
                 IF ~TaskInTeam(teamId, taskId) THEN Finish(rq, "not_found")
                 ELSE IF dbGetTaskById(taskId).task_type = "broadcast"
                      THEN [rq EXCEPT !.pc = "ct_isTarget"]
                      ELSE [rq EXCEPT !.pc = "ct_personal", !.view = view]]
    /\ UNCHANGED <<tasks, task_targets, task_completions, thread_cards, posts, edits, shown, dms>>

\* const isTarget = await dbIsUserTarget(teamId, taskId, userId); if (!isTarget) return
CompleteIsTarget(r) ==
    /\ req[r].pc = "ct_isTarget"
    /\ req' = [req EXCEPT ![r] =
          IF dbIsUserTarget(req[r].taskId, req[r].user)
          THEN [@ EXCEPT !.pc = "ct_upsert"]
          ELSE Finish(@, "not_target")]
    /\ UNCHANGED <<tasks, task_targets, task_completions, thread_cards, posts, edits, shown, dms, started>>

\* await dbUpsertCompletion(teamId, taskId, userId)
CompleteUpsert(r) ==
    /\ req[r].pc = "ct_upsert"
    /\ task_completions' = dbUpsertCompletion(req[r].taskId, req[r].user)
    /\ req' = [req EXCEPT ![r].pc = "ct_count"]
    /\ UNCHANGED <<tasks, task_targets, thread_cards, posts, edits, shown, dms, started>>

\* variation: one completion is taken for all of them
TotalOf_Mut(taskId) == 1

\* const total = task.total_count || (await dbCountTargets(...)); total_count is
\* written once, by dbCreateTask, so the handler's snapshot equals the row
TotalOf(taskId) ==
    IF tasks[taskId].total_count \notin {0, NullCount}
    THEN tasks[taskId].total_count ELSE dbCountTargets(taskId)

\* variation: the completion path without its all-completed test
AllDone_Mut(doneCount, total) == TRUE

AllDone(doneCount, total) == doneCount >= total /\ total > 0

\* the broadcast path goes on to "if (task.channel_id && task.message_ts) { const
\* refreshed = await dbGetTaskById(...)": the handler's other locals are dead
ToRefreshed(rq) ==
    [IdleReq EXCEPT !.pc = "ct_refreshed", !.op = rq.op, !.taskId = rq.taskId]

\* const doneCount = await dbCountCompletions(...); if (doneCount >= total && total > 0)
CompleteCount(r) ==
    /\ req[r].pc = "ct_count"
    /\ req' = [req EXCEPT ![r] =
          IF AllDone(dbCountCompletions(req[r].taskId), TotalOf(req[r].taskId))
          THEN [@ EXCEPT !.pc = "ct_fresh"]
          ELSE ToRefreshed(@)]
    /\ UNCHANGED <<tasks, task_targets, task_completions, thread_cards, posts, edits, shown, dms, started>>

\* if (fresh && !["waiting", "done", "cancelled"].includes(fresh.status))
NeedsWaiting(status) == status \notin {"waiting", "done", "cancelled"}

\* if (fresh && !fresh.notified_at)
\* variation: the handler without its "not yet notified" test
NeedsNotify_Mut(notified_at) == TRUE

NeedsNotify(notified_at) == ~notified_at

\* const fresh = await dbGetTaskById(teamId, taskId)
CompleteFresh(r) ==
    /\ req[r].pc = "ct_fresh"
    /\ LET fresh == dbGetTaskById(req[r].taskId) IN
       req' = [req EXCEPT ![r] =
          IF NeedsWaiting(fresh.status)
          THEN [@ EXCEPT !.pc = "ct_waiting", !.fresh_status = fresh.status,
                         !.fresh_notified = fresh.notified_at]
          ELSE IF NeedsNotify(fresh.notified_at)
          THEN [@ EXCEPT !.pc = "ct_notify", !.fresh_status = fresh.status,
                         !.fresh_notified = fresh.notified_at]
          ELSE ToRefreshed(@)]
    /\ UNCHANGED <<tasks, task_targets, task_completions, thread_cards, posts, edits, shown, dms, started>>

\* await dbUpdateStatus(teamId, taskId, "waiting")
CompleteWaiting(r) ==
    /\ req[r].pc = "ct_waiting"
    /\ tasks' = dbUpdateStatus(req[r].taskId, "waiting")
    /\ req' = [req EXCEPT ![r] =
          IF NeedsNotify(req[r].fresh_notified) THEN [@ EXCEPT !.pc = "ct_notify"]
          ELSE ToRefreshed(@)]
    /\ UNCHANGED <<task_targets, task_completions, thread_cards, posts, edits, shown, dms, started>>

\* await dbQuery(`UPDATE tasks SET notified_at=now() WHERE ... AND notified_at IS NULL`);
\* the handler does not look at the number of rows the statement changed
CompleteNotify(r) ==
    /\ req[r].pc = "ct_notify"
    /\ tasks' = SetNotifiedIfNull(req[r].taskId)
    /\ req' = [req EXCEPT ![r].pc = "ct_dm"]
    /\ UNCHANGED <<task_targets, task_completions, thread_cards, posts, edits, shown, dms, started>>

\* await postRequesterConfirmDM(...)
CompleteDM(r) ==
    /\ req[r].pc = "ct_dm"
    /\ dms' = [dms EXCEPT ![req[r].taskId] = @ + 1]
    /\ req' = [req EXCEPT ![r] = ToRefreshed(@)]
    /\ UNCHANGED <<tasks, task_targets, task_completions, thread_cards, posts, edits, shown, started>>

\* const refreshed = await dbGetTaskById(teamId, taskId); the card blocks are built
\* from this row
CompleteRefreshed(r) ==
    /\ req[r].pc = "ct_refreshed"
    /\ LET refreshed == dbGetTaskById(req[r].taskId) IN
       req' = [req EXCEPT ![r] = ToCard(@, refreshed, buildThreadCardBlocks(refreshed))]
    /\ UNCHANGED <<tasks, task_targets, task_completions, thread_cards, posts, edits, shown, dms, started>>

\* after the row update: from list_detail_modal the handler refreshes the list view
\* and returns; otherwise it goes on to the thread card
AfterUpdate(rq, task, blocks) ==
    IF rq.view = "list_detail_modal" THEN Finish(rq, "ok") ELSE ToCard(rq, task, blocks)

\* personal: const updated = await dbUpdateStatus(teamId, taskId, "done")
CompletePersonal(r) ==
    /\ req[r].pc = "ct_personal"
    /\ tasks' = dbUpdateStatus(req[r].taskId, "done")
    /\ req' = [req EXCEPT ![r] = AfterUpdate(@, tasks[req[r].taskId], DoneBlocks)]
    /\ UNCHANGED <<task_targets, task_completions, thread_cards, posts, edits, shown, dms, started>>

\* ------------------------------------------------------------------ confirm_broadcast_done
\* variation: the handler without its "already done or cancelled" test
AlreadyClosed_Mut(task) == FALSE

\* if (task.status === "done" || task.status === "cancelled") ... return
AlreadyClosed(task) == task.status = "done" \/ task.status = "cancelled"

ConfirmBroadcastDone(r) ==
    /\ CanStart(r)
    /\ started' = started + 1
    /\ \E teamId \in Teams : \E user \in TeamUsers(teamId), taskId \in TaskIds :
          LET rq == TriggerIn(teamId, "confirm_broadcast_done", user, taskId)
          IN req' = [req EXCEPT ![r] =
                 IF ~TaskInTeam(teamId, taskId) THEN Finish(rq, "not_found")
                 ELSE IF dbGetTaskById(taskId).task_type # "broadcast" THEN Finish(rq, "ignored")
                 ELSE IF AlreadyClosed(dbGetTaskById(taskId)) THEN Finish(rq, "conflict")
                 ELSE [rq EXCEPT !.pc = "cb_done"]]
    /\ UNCHANGED <<tasks, task_targets, task_completions, thread_cards, posts, edits, shown, dms>>

\* const updated = await dbUpdateStatus(teamId, taskId, "done")
ConfirmDone(r) ==
    /\ req[r].pc = "cb_done"
    /\ LET updated == dbUpdateStatus(req[r].taskId, "done")[req[r].taskId] IN
       /\ tasks' = dbUpdateStatus(req[r].taskId, "done")
       /\ req' = [req EXCEPT ![r] = ToCard(@, updated, buildThreadCardBlocks(updated))]
    /\ UNCHANGED <<task_targets, task_completions, thread_cards, posts, edits, shown, dms, started>>

\* ------------------------------------------------------------------ cancel_task
\* if (task.requester_user_id !== body.user.id) return
\* variation: the handler without its requester test
CanCancel_Mut(task, actor) == TRUE

CanCancel(task, actor) == task.requester_user_id = actor

CancelTask(r) ==
    /\ CanStart(r)
    /\ started' = started + 1
    /\ \E teamId \in Teams : \E user \in TeamUsers(teamId), taskId \in TaskIds, view \in Views :
          LET rq == TriggerIn(teamId, "cancel_task", user, taskId)
          IN req' = [req EXCEPT ![r] =
                 IF ~TaskInTeam(teamId, taskId) THEN Finish(rq, "not_found")
                 ELSE IF ~CanCancel(dbGetTaskById(taskId), user) THEN Finish(rq, "denied")
                 ELSE [rq EXCEPT !.pc = "cx_cancel", !.view = view]]
    /\ UNCHANGED <<tasks, task_targets, task_completions, thread_cards, posts, edits, shown, dms>>

\* const cancelled = await dbCancelTask(teamId, taskId, body.user.id)
CancelWrite(r) ==
    /\ req[r].pc = "cx_cancel"
    /\ tasks' = dbCancelTask(req[r].taskId, req[r].user)
    /\ req' = [req EXCEPT ![r] = AfterUpdate(@, tasks[req[r].taskId], CancelBlocks)]
    /\ UNCHANGED <<task_targets, task_completions, thread_cards, posts, edits, shown, dms, started>>

\* ------------------------------------------------------------------ status_select
\* if (task.requester_user_id !== actor && task.assignee_id !== actor) return
\* variation: the handler without its requester/assignee test
CanChangeStatus_Mut(task, actor) == TRUE

CanChangeStatus(task, actor) ==
    task.requester_user_id = actor \/ task.assignee_id = actor

StatusSelect(r) ==
    /\ CanStart(r)
    /\ started' = started + 1
    /\ \E teamId \in Teams : \E user \in TeamUsers(teamId), taskId \in TaskIds, nextStatus \in StatusSelectOptions, view \in Views :
          LET rq == TriggerIn(teamId, "status_select", user, taskId)
          IN req' = [req EXCEPT ![r] =
                 IF ~TaskInTeam(teamId, taskId) THEN Finish(rq, "not_found")
                 ELSE IF dbGetTaskById(taskId).task_type = "broadcast"
                      THEN Finish(rq, "denied_broadcast")
                 ELSE IF ~CanChangeStatus(dbGetTaskById(taskId), user) THEN Finish(rq, "denied")
                 ELSE [rq EXCEPT !.pc = "ss_update", !.view = view, !.nextStatus = nextStatus]]
    /\ UNCHANGED <<tasks, task_targets, task_completions, thread_cards, posts, edits, shown, dms>>

\* const updated = await dbUpdateStatus(teamId, taskId, nextStatus)
StatusUpdate(r) ==
    /\ req[r].pc = "ss_update"
    /\ LET updated == dbUpdateStatus(req[r].taskId, req[r].nextStatus)[req[r].taskId] IN
       /\ tasks' = dbUpdateStatus(req[r].taskId, req[r].nextStatus)
       /\ req' = [req EXCEPT ![r] = AfterUpdate(@, updated, buildThreadCardBlocks(updated))]
    /\ UNCHANGED <<task_targets, task_completions, thread_cards, posts, edits, shown, dms, started>>

\* ------------------------------------------------------------------ edit_task_modal
\* const before = await dbGetTaskById(teamId, taskId): the columns of the snapshot that
\* the handler reads after its update
BeforeOf(task) ==
    [task_type |-> task.task_type, assignee_id |-> task.assignee_id,
     due_date |-> task.due_date, description |-> task.description]

\* variation: the handler without its permission test
CanEditTask_Mut(task, actorUserId) == TRUE

CanEditTask(task, actorUserId) ==
    \/ /\ task.task_type # "broadcast"
       /\ (actorUserId = task.requester_user_id \/ actorUserId = task.assignee_id)
    \/ /\ task.task_type = "broadcast"
       /\ actorUserId = task.requester_user_id

\* variation: the submitted assignee is patched for every task type
PatchAssigneeId_Mut(task, nextAssignee) == nextAssignee

\* personal だけ対応者変更を許可: patchAssigneeId stays null for a broadcast task
PatchAssigneeId(task, nextAssignee) ==
    IF task.task_type = "broadcast" THEN Null ELSE nextAssignee

EditTaskModal(r) ==
    /\ CanStart(r)
    /\ started' = started + 1
    /\ \E teamId \in Teams : \E user \in TeamUsers(teamId), taskId \in TaskIds, nextAssignee \in SelectableUsers \cup {Null},
          nextDue \in DueDates \cup {Null}, nextContent \in Contents \cup {""} :
          LET rq == TriggerIn(teamId, "edit_task_modal", user, taskId)
          IN req' = [req EXCEPT ![r] =
                 IF nextContent = "" THEN Finish(rq, "errors")
                 ELSE IF ~TaskInTeam(teamId, taskId) THEN Finish(rq, "not_found")
                 ELSE IF ~CanEditTask(dbGetTaskById(taskId), user) THEN Finish(rq, "denied")
                 ELSE IF dbGetTaskById(taskId).task_type # "broadcast" /\ nextAssignee = Null
                      THEN Finish(rq, "ignored")
                 ELSE [rq EXCEPT !.pc = "ed_update", !.before = BeforeOf(dbGetTaskById(taskId)),
                                 !.nextAssignee = PatchAssigneeId(dbGetTaskById(taskId), nextAssignee),
                                 !.nextDue = nextDue, !.nextContent = nextContent]]
    /\ UNCHANGED <<tasks, task_targets, task_completions, thread_cards, posts, edits, shown, dms>>

\* { assignee_id: patchAssigneeId, due_date: nextDue, description: nextContent }
EditPatch(rq) ==
    {<<"assignee_id", rq.nextAssignee>>, <<"due_date", rq.nextDue>>,
     <<"description", rq.nextContent>>}

\* String(due_date || ""): a missing date compares as the empty string
DueString(due) == IF due = Null THEN "" ELSE due

\* (description || "")
DescriptionString(description) == IF description = Null THEN "" ELSE description

\* variation: the due date is reported only when a date replaces a date
ChangeLog_Mut(before, updated) ==
    {f \in {"assignee"} :
        /\ before.task_type # "broadcast"
        /\ before.assignee_id # Null
        /\ updated.assignee_id # Null
        /\ before.assignee_id # updated.assignee_id}
    \cup {f \in {"due"} : /\ before.due_date # Null
                          /\ updated.due_date # Null
                          /\ DueString(before.due_date) # DueString(updated.due_date)}
    \cup {f \in {"content"} :
             DescriptionString(before.description) # DescriptionString(updated.description)}

\* const changes = []; ... changes.push(...): the fields the change notice lists
ChangeLog(before, updated) ==
    {f \in {"assignee"} :
        /\ before.task_type # "broadcast"
        /\ before.assignee_id # Null
        /\ updated.assignee_id # Null
        /\ before.assignee_id # updated.assignee_id}
    \cup {f \in {"due"} : DueString(before.due_date) # DueString(updated.due_date)}
    \cup {f \in {"content"} :
             DescriptionString(before.description) # DescriptionString(updated.description)}

\* the handler holds the change notice of its edit while the card is upserted; the
\* notice is built only under "if (updated.channel_id && updated.message_ts)"
WithChanges(rq, before, updated) ==
    IF rq.pc = "done" THEN rq ELSE [rq EXCEPT !.changes = ChangeLog(before, updated)]

\* variation: an edit that also records the editing user as a target
EditWrite_Mut(r) ==
    /\ req[r].pc = "ed_update"
    /\ LET updated == dbUpdateTaskContentPatch(req[r].taskId, EditPatch(req[r]))[req[r].taskId] IN
       /\ tasks' = dbUpdateTaskContentPatch(req[r].taskId, EditPatch(req[r]))
       /\ req' = [req EXCEPT ![r] = WithChanges(ToCard(@, updated, buildThreadCardBlocks(updated)),
                                                req[r].before, updated)]
    /\ task_targets' = dbInsertTaskTargets(req[r].taskId, {req[r].user})
    /\ UNCHANGED <<task_completions, thread_cards, posts, edits, shown, dms, started>>

\* const updated = await dbUpdateTaskContent(teamId, taskId, {...})
EditWrite(r) ==
    /\ req[r].pc = "ed_update"
    /\ LET updated == dbUpdateTaskContentPatch(req[r].taskId, EditPatch(req[r]))[req[r].taskId] IN
       /\ tasks' = dbUpdateTaskContentPatch(req[r].taskId, EditPatch(req[r]))
       /\ req' = [req EXCEPT ![r] = WithChanges(ToCard(@, updated, buildThreadCardBlocks(updated)),
                                                req[r].before, updated)]
    /\ UNCHANGED <<task_targets, task_completions, thread_cards, posts, edits, shown, dms, started>>

\* ------------------------------------------------------------------ runDueNotifyJob
\* SELECT * FROM tasks WHERE due_date = $1 AND status NOT IN ('done','cancelled')
\* AND (notified_at IS NULL) AND (task_type IS NULL OR task_type='personal')
DueRows ==
    {t \in DOMAIN tasks : /\ tasks[t].due_date = Today
                          /\ tasks[t].status \notin {"done", "cancelled"}
                          /\ ~tasks[t].notified_at
                          /\ tasks[t].task_type = "personal"}

\* for (const t of tasks): the next row of the result, in created_at order
NextDueRow(rq, rows) ==
    IF rows = {} THEN Finish(rq, "ok")
    ELSE LET t == CHOOSE x \in rows : \A y \in rows : x <= y
         IN [rq EXCEPT !.pc = "dn_update", !.taskId = t, !.due_rows = rows \ {t}]

\* cron: runDueNotifyJob() reads the rows that are due today
RunDueNotifyJob(r) ==
    /\ CanStart(r)
    /\ started' = started + 1
    /\ req' = [req EXCEPT ![r] = NextDueRow(Trigger("runDueNotifyJob", Null, 0), DueRows)]
    /\ UNCHANGED <<tasks, task_targets, task_completions, thread_cards, posts, edits, shown, dms>>

\* await notifyUserDM(...) twice; UPDATE tasks SET notified_at = now() WHERE id=$2
DueNotifyUpdate(r) ==
    /\ req[r].pc = "dn_update"
    /\ tasks' = IF TaskExists(req[r].taskId)
                THEN [tasks EXCEPT ![req[r].taskId].notified_at = TRUE] ELSE tasks
    /\ req' = [req EXCEPT ![r] = NextDueRow(@, req[r].due_rows)]
    /\ UNCHANGED <<task_targets, task_completions, thread_cards, posts, edits, shown, dms, started>>

\* ------------------------------------------------------------------ the handler returns
Return(r) ==
    /\ req[r].pc = "done"
    /\ req' = [req EXCEPT ![r] = IdleReq]
    /\ UNCHANGED <<tasks, task_targets, task_completions, thread_cards, posts, edits, shown, dms, started>>

Step(r) ==
    \/ TaskModal(r) \/ TaskModalTargets(r) \/ TaskModalCounts(r)
    \/ ReactionAdded(r) \/ ReactionTask(r) \/ ReactionConfirmCreate(r) \/ ReactionCreate(r)
    \/ CompleteTask(r) \/ CompleteIsTarget(r) \/ CompleteUpsert(r) \/ CompleteCount(r)
    \/ CompleteFresh(r) \/ CompleteWaiting(r) \/ CompleteNotify(r) \/ CompleteDM(r)
    \/ CompleteRefreshed(r) \/ CompletePersonal(r)
    \/ ConfirmBroadcastDone(r) \/ ConfirmDone(r)
    \/ CancelTask(r) \/ CancelWrite(r)
    \/ StatusSelect(r) \/ StatusUpdate(r)
    \/ EditTaskModal(r) \/ EditWrite(r)
    \/ RunDueNotifyJob(r) \/ DueNotifyUpdate(r)
    \/ UpsertGet(r) \/ UpsertUpdate(r) \/ UpsertPost(r) \/ UpsertDbGet(r) \/ UpsertDbWrite(r)
    \/ Return(r)

\* requests are handled concurrently: any handler in flight takes its next step
Next == \E r \in Reqs : Step(r)

Spec == Init /\ [][Next]_vars

\* the same handlers when no two requests overlap: a trigger arrives only after the
\* previous handler has returned
Alone(r) == \A q \in Reqs \ {r} : req[q].pc = "idle"

StepSeq(r) ==
    \/ Alone(r) /\ TaskModal(r)
    \/ TaskModalTargets(r) \/ TaskModalCounts(r)
    \/ Alone(r) /\ ReactionAdded(r)
    \/ ReactionTask(r)
    \/ Alone(r) /\ ReactionConfirmCreate(r)
    \/ ReactionCreate(r)
    \/ Alone(r) /\ CompleteTask(r)
    \/ CompleteIsTarget(r) \/ CompleteUpsert(r) \/ CompleteCount(r)
    \/ CompleteFresh(r) \/ CompleteWaiting(r) \/ CompleteNotify(r) \/ CompleteDM(r)
    \/ CompleteRefreshed(r) \/ CompletePersonal(r)
    \/ Alone(r) /\ ConfirmBroadcastDone(r)
    \/ ConfirmDone(r)
    \/ Alone(r) /\ CancelTask(r)
    \/ CancelWrite(r)
    \/ Alone(r) /\ StatusSelect(r)
    \/ StatusUpdate(r)
    \/ Alone(r) /\ EditTaskModal(r)
    \/ EditWrite(r)
    \/ Alone(r) /\ RunDueNotifyJob(r)
    \/ DueNotifyUpdate(r)
    \/ UpsertGet(r) \/ UpsertUpdate(r) \/ UpsertPost(r) \/ UpsertDbGet(r) \/ UpsertDbWrite(r)
    \/ Return(r)

NextSeq == \E r \in Reqs : StepSeq(r)

SpecSeq == Init /\ [][NextSeq]_vars

\* ------------------------------------------------------------------ creation alone
\* The handlers that create tasks (task_modal and the reaction flow), interleaved, with
\* room for a second task row.
InitDup ==
    /\ tasks = <<>>
    /\ task_targets = [t \in 1..MaxDupTasks |-> {}]
    /\ task_completions = [t \in 1..MaxDupTasks |-> {}]
    /\ thread_cards = [k \in CardKeys |-> <<>>]
    /\ posts = <<>>
    /\ edits = <<>>
    /\ shown = <<>>
    /\ dms = [t \in 1..MaxDupTasks |-> 0]
    /\ req = [r \in Reqs |-> IdleReq]
    /\ started = 0

StepDup(r) ==
    \/ TaskModal(r) \/ TaskModalTargets(r) \/ TaskModalCounts(r)
    \/ ReactionAdded(r) \/ ReactionTask(r) \/ ReactionConfirmCreate(r) \/ ReactionCreate(r)
    \/ UpsertGet(r) \/ UpsertUpdate(r) \/ UpsertPost(r) \/ UpsertDbGet(r) \/ UpsertDbWrite(r)
    \/ Return(r)

NextDup == \E r \in Reqs : StepDup(r)

SpecDup == InitDup /\ [][NextDup]_vars

\* ------------------------------------------------------------------ dbUpdateTaskContent alone
\* The store function called directly, with every patch shape a caller can write:
\* each field missing, null or set.
FieldValues(f) ==
    IF f = "assignee_id" THEN SelectableUsers \cup {Null}
    ELSE IF f = "due_date" THEN DueDates \cup {Null}
    ELSE Contents \cup {Null}

\* a field is missing, or present with one of its values (null included)
FieldChoices(f) == {{}} \cup {{<<f, v>>} : v \in FieldValues(f)}

Patches ==
    {a \cup d \cup c : a \in FieldChoices("assignee_id"), d \in FieldChoices("due_date"),
                       c \in FieldChoices("description")}

\* the rows task_modal can have created
InitContent ==
    /\ \E actor \in ModalActors, selectedUsers \in SUBSET SelectableUsers,
          selectedGroupIds \in SUBSET Groups, due \in DueDates \cup {Null}, src \in ModalSources :
       \E groupUsers \in (IF selectedGroupIds = {} THEN {{}} ELSE GroupExpansions) :
          /\ ~(selectedUsers = {} /\ selectedGroupIds = {})
          /\ tasks = (1 :> NewTask(actor, actor, selectedUsers \cup groupUsers,
                                  selectedGroupIds, due, src))
    /\ task_targets = [t \in TaskIds |-> {}]
    /\ task_completions = [t \in TaskIds |-> {}]
    /\ thread_cards = [k \in CardKeys |-> <<>>]
    /\ posts = <<>>
    /\ edits = <<>>
    /\ shown = <<>>
    /\ dms = [t \in TaskIds |-> 0]
    /\ req = [r \in Reqs |-> IdleReq]
    /\ started = 0

\* a caller invokes dbUpdateTaskContent(teamId, taskId, patch)
UpdateTaskContentCall(r) ==
    /\ CanStart(r)
    /\ Alone(r)
    /\ started' = started + 1
    /\ \E taskId \in DOMAIN tasks, patch \in Patches :
          req' = [req EXCEPT ![r] = [Trigger("dbUpdateTaskContent", Null, taskId)
                                        EXCEPT !.pc = "fn_update", !.patch = patch]]
    /\ UNCHANGED <<tasks, task_targets, task_completions, thread_cards, posts, edits, shown, dms>>

\* the UPDATE statement runs
UpdateTaskContentApply(r) ==
    /\ req[r].pc = "fn_update"
    /\ tasks' = dbUpdateTaskContentPatch(req[r].taskId, req[r].patch)
    /\ req' = [req EXCEPT ![r].pc = "fn_return"]
    /\ UNCHANGED <<task_targets, task_completions, thread_cards, posts, edits, shown, dms, started>>

UpdateTaskContentReturn(r) ==
    /\ req[r].pc = "fn_return"
    /\ req' = [req EXCEPT ![r] = IdleReq]
    /\ UNCHANGED <<tasks, task_targets, task_completions, thread_cards, posts, edits, shown, dms, started>>

NextContent ==
    \E r \in Reqs :
        \/ UpdateTaskContentCall(r)
        \/ UpdateTaskContentApply(r)
        \/ UpdateTaskContentReturn(r)

SpecContent == InitContent /\ [][NextContent]_vars

\* ------------------------------------------------------------------ calcBroadcastStateLabel alone
\* the labels the function returns (取り下げ, 完了, 確認待ち, 対応中, 未着手)
LabelCancelled == "label_cancelled"
LabelDone == "label_done"
LabelWaiting == "label_waiting"
LabelInProgress == "label_in_progress"
LabelNotStarted == "label_not_started"

\* Number(x || 0): a null count reads as 0
NumberOrZero(x) == IF x = NullCount THEN 0 ELSE x

\* variation: the progress is looked at before the status
calcBroadcastStateLabel_Mut(task) ==
    LET total == NumberOrZero(task.total_count)
        done == NumberOrZero(task.completed_count)
    IN IF total > 0 /\ done >= total THEN LabelWaiting
       ELSE IF task.status = "cancelled" THEN LabelCancelled
       ELSE IF task.status = "done" THEN LabelDone
       ELSE IF done > 0 THEN LabelInProgress
       ELSE LabelNotStarted

calcBroadcastStateLabel(task) ==
    LET total == NumberOrZero(task.total_count)
        done == NumberOrZero(task.completed_count)
    IN IF task.status = "cancelled" THEN LabelCancelled
       ELSE IF task.status = "done" THEN LabelDone
       ELSE IF total > 0 /\ done >= total THEN LabelWaiting
       ELSE IF done > 0 THEN LabelInProgress
       ELSE LabelNotStarted

\* the rows the function is given: a broadcast task in any status, with any counts up
\* to MaxCount (completed_count is written by the earlier variants of the handlers)
LabelStatuses == {"open", "in_progress", "waiting", "done", "cancelled"}

LabelCounts == {NullCount} \cup (0..MaxCount)

InitLabel ==
    /\ \E status \in LabelStatuses, total \in LabelCounts, completed \in LabelCounts :
          tasks = (1 :> [NewTask("u1", "u1", {"u2", "u3"}, {}, Null,
                                 [channel_id |-> "C1", message_ts |-> "m1"])
                            EXCEPT !.status = status, !.total_count = total,
                                   !.completed_count = completed])
    /\ task_targets = [t \in TaskIds |-> {}]
    /\ task_completions = [t \in TaskIds |-> {}]
    /\ thread_cards = [k \in CardKeys |-> <<>>]
    /\ posts = <<>>
    /\ edits = <<>>
    /\ shown = <<>>
    /\ dms = [t \in TaskIds |-> 0]
    /\ req = [r \in Reqs |-> IdleReq]
    /\ started = 0

\* a view builder calls calcBroadcastStateLabel(task)
LabelCall(r) ==
    /\ CanStart(r)
    /\ Alone(r)
    /\ started' = started + 1
    /\ \E taskId \in DOMAIN tasks :
          req' = [req EXCEPT ![r] = [Trigger("calcBroadcastStateLabel", Null, taskId)
                                        EXCEPT !.pc = "fn_label"]]
    /\ UNCHANGED <<tasks, task_targets, task_completions, thread_cards, posts, edits, shown, dms>>

\* the function returns its label
LabelApply(r) ==
    /\ req[r].pc = "fn_label"
    /\ req' = [req EXCEPT ![r] = Finish(@, calcBroadcastStateLabel(tasks[req[r].taskId]))]
    /\ UNCHANGED <<tasks, task_targets, task_completions, thread_cards, posts, edits, shown, dms, started>>

NextLabel == \E r \in Reqs : LabelCall(r) \/ LabelApply(r) \/ Return(r)

SpecLabel == InitLabel /\ [][NextLabel]_vars

\* ------------------------------------------------------------------ vocabulary of the claims
CountPosts(k) == Cardinality({i \in 1..Len(posts) : posts[i] = k})

Acting(r) == req'[r] # req[r]

InFlight(r) == req[r].pc \notin {"idle", "done"}

AllReturned == \A r \in Reqs : req[r].pc = "idle"

IsBroadcast(t) == t \in DOMAIN tasks /\ tasks[t].task_type = "broadcast"

IsPersonalTask(t) == t \in DOMAIN tasks /\ tasks[t].task_type = "personal"

CompleteInFlight(t) ==
    \E r \in Reqs : InFlight(r) /\ req[r].op = "complete_task" /\ req[r].taskId = t

\* C1 (refuted by the code): once a task's status is 'done' or 'cancelled', no
\* handler step changes that task's status.
C1_TerminalAbsorbing ==
    [][\A t \in DOMAIN tasks :
          tasks[t].status \in Terminal => tasks'[t].status = tasks[t].status]_vars

\* C2 (refuted by the code): the requester confirmation DM of a broadcast task is
\* sent at most once, also when the final completions are handled concurrently.
C2_ConfirmOnce == \A t \in TaskIds : dms[t] <= 1

\* C3 as stated (refuted): for every key, under any interleaving of upsertThreadCard
\* calls, at most one card message is posted and at most one thread_cards row exists.
C3_AtMostOneCard ==
    \A k \in CardKeys : CountPosts(k) <= 1 /\ Len(thread_cards[k]) <= 1

\* a row is recorded for the key and no call that found none is still about to post
Settled(k) ==
    /\ thread_cards[k] # <<>>
    /\ \A r \in Reqs : ~(req[r].pc = "uc_post" /\ req[r].key = k)

\* C3 (amended): a call of upsertThreadCard posts a card only if its own lookup found
\* no thread_cards row for the key; once a row is recorded for the key and every call
\* that had found none has posted or failed, no further card message is posted for the
\* key, whichever operations trigger the refreshes and however they interleave.
C3_PostOnlyWithoutRow ==
    [][\A k \in CardKeys :
          /\ \A r \in Reqs :
                (Acting(r) /\ req[r].key = k /\ CountPosts(k)' # CountPosts(k))
                    => (req[r].pc = "uc_post" /\ req[r].existing = 0)
          /\ \A r \in Reqs :
                (req[r].pc = "uc_get" /\ req[r].key = k /\ Acting(r) /\ thread_cards[k] # <<>>)
                    => req'[r].pc = "uc_update"
          /\ Settled(k) => (Settled(k)' /\ CountPosts(k)' = CountPosts(k))]_vars

\* two refreshes raced and both posted; the row is recorded; a later refresh edited
C3_Witness ==
    \E k \in CardKeys :
        /\ CountPosts(k) = 2
        /\ Settled(k)
        /\ \E i \in 1..Len(edits) : posts[i] = k /\ edits[i] >= 1

\* C4: when the calls of upsertThreadCard for a key do not overlap, a card is posted
\* only by a call that finds no card posted and no row recorded for the key, and that
\* call records the posted message's ts as the key's single row; every later call edits
\* exactly that message; the recorded card_ts never changes; never more than one card
\* is posted for the key.
C4_SequentialIdempotent ==
    [][\A k \in CardKeys :
          /\ CountPosts(k)' <= 1
          /\ thread_cards[k] # <<>> => thread_cards'[k] = thread_cards[k]
          /\ \A r \in Reqs : (Acting(r) /\ req[r].key = k) =>
                /\ (req[r].pc = "uc_post" /\ posts' # posts) =>
                       /\ CountPosts(k) = 0 /\ thread_cards[k] = <<>>
                       /\ req'[r].pc = "uc_dbget"
                /\ req[r].pc = "uc_dbwrite" =>
                       /\ thread_cards'[k] = <<req[r].cardTs>>
                       /\ posts[req[r].cardTs] = k
                /\ (req[r].pc = "uc_get" /\ CountPosts(k) = 1) =>
                       /\ req'[r].pc = "uc_update"
                       /\ req'[r].existing = thread_cards[k][1]
                /\ (req[r].pc = "uc_update" /\ edits' # edits) =>
                       edits' = [edits EXCEPT ![thread_cards[k][1]] = @ + 1]]_vars

\* three calls in a row: the first posted the card, the two later ones edited it
C4_Witness ==
    \E k \in CardKeys :
        /\ AllReturned
        /\ CountPosts(k) = 1
        /\ thread_cards[k] = <<1>>
        /\ posts[1] = k
        /\ edits[1] = 2

\* C5 (refuted by the code): for every broadcast task, whenever no complete_task
\* handler is running on it, the row's completed_count equals the number of
\* task_completions rows of the task.
C5_CompletedCountExact ==
    \A t \in DOMAIN tasks :
        (IsBroadcast(t) /\ ~CompleteInFlight(t))
            => tasks[t].completed_count = dbCountCompletions(t)

\* C6 (refuted by the code): for a broadcast task with at least one target that nobody
\* has cancelled or force-completed: while fewer targets than recorded have completed,
\* the status is not 'waiting', notified_at is null and no confirmation prompt was sent;
\* once all have completed and the completing handlers have finished, the status is
\* 'waiting', notified_at is set and exactly one confirmation prompt was sent.
C6_BroadcastProgress ==
    \A t \in DOMAIN tasks :
        (/\ IsBroadcast(t)
         /\ ~tasks[t].cancelled_at
         /\ ~tasks[t].completed_at
         /\ dbCountTargets(t) >= 1)
        => /\ dbCountCompletions(t) < dbCountTargets(t) =>
                 /\ tasks[t].status # "waiting"
                 /\ ~tasks[t].notified_at
                 /\ dms[t] = 0
           /\ (dbCountCompletions(t) = dbCountTargets(t) /\ ~CompleteInFlight(t)) =>
                 /\ tasks[t].status = "waiting"
                 /\ tasks[t].notified_at
                 /\ dms[t] = 1

\* C7 (refuted by the code): once a broadcast task is cancelled, no step inserts a
\* task_completions row for it.
C7_NoCompletionAfterCancel ==
    [][\A t \in DOMAIN tasks :
          (IsBroadcast(t) /\ tasks[t].status = "cancelled")
              => task_completions'[t] = task_completions[t]]_vars

\* C8 (refuted by the code): once a task's status is 'done' or 'cancelled', no step
\* changes its assignee_id, due_date or description.
C8_NoEditAfterTerminal ==
    [][\A t \in DOMAIN tasks :
          tasks[t].status \in Terminal =>
              /\ tasks'[t].assignee_id = tasks[t].assignee_id
              /\ tasks'[t].due_date = tasks[t].due_date
              /\ tasks'[t].description = tasks[t].description]_vars

C10_CompleteAuthorized ==
    [][\A r \in Reqs :
          (/\ Acting(r)
           /\ req[r].op = "complete_task"
           /\ IsPersonalTask(req[r].taskId)
           /\ tasks'[req[r].taskId].status # tasks[req[r].taskId].status)
          => req[r].user \in {tasks[req[r].taskId].requester_user_id,
                              tasks[req[r].taskId].assignee_id}]_vars

\* C11: for a personal and for a broadcast task alike, a cancel_task by a user other
\* than the row's requester_user_id returns without writing (status, cancelled_at and
\* cancelled_by_user_id unchanged); only a cancel_task handler whose actor is the
\* requester changes the tasks table, and it records that actor as cancelled_by_user_id.
C11_CancelRequesterOnly ==
    [][\A r \in Reqs :
          /\ (Acting(r) /\ req[r].pc = "idle" /\ req'[r].op = "cancel_task"
                /\ TaskExists(req'[r].taskId)
                /\ req'[r].user # tasks[req'[r].taskId].requester_user_id) =>
                /\ req'[r].pc = "done"
                /\ req'[r].outcome = "denied"
                /\ tasks' = tasks
          /\ (Acting(r) /\ req[r].op = "cancel_task" /\ tasks' # tasks) =>
                /\ req[r].user = tasks[req[r].taskId].requester_user_id
                /\ tasks'[req[r].taskId].cancelled_by_user_id = req[r].user]_vars

\* the requester has cancelled a broadcast task and another user's cancel was denied
C11_Witness ==
    \E t \in DOMAIN tasks, r \in Reqs :
        /\ IsBroadcast(t)
        /\ tasks[t].status = "cancelled"
        /\ tasks[t].cancelled_at
        /\ tasks[t].cancelled_by_user_id = tasks[t].requester_user_id
        /\ req[r].pc = "done"
        /\ req[r].op = "cancel_task"
        /\ req[r].taskId = t
        /\ req[r].outcome = "denied"
        /\ req[r].user # tasks[t].requester_user_id

\* C12: a step changes the status of a broadcast task only if it is (a) the 'waiting'
\* update of a complete_task handler, taken when every target has a completion row,
\* (b) the 'done' update of confirm_broadcast_done, or (c) the cancel of a cancel_task
\* handler whose actor is the requester; a status_select on a broadcast task returns
\* without writing, whoever sends it (as not found when it names another team).
C12_BroadcastStatusPaths ==
    [][/\ \A t \in DOMAIN tasks :
             (IsBroadcast(t) /\ tasks'[t].status # tasks[t].status) =>
                \E r \in Reqs :
                    /\ Acting(r)
                    /\ req[r].taskId = t
                    /\ \/ /\ req[r].op = "complete_task"
                          /\ req[r].pc = "ct_waiting"
                          /\ tasks'[t].status = "waiting"
                          /\ task_targets[t] # {}
                          /\ task_targets[t] \subseteq task_completions[t]
                       \/ /\ req[r].op = "confirm_broadcast_done"
                          /\ tasks'[t].status = "done"
                       \/ /\ req[r].op = "cancel_task"
                          /\ req[r].user = tasks[t].requester_user_id
                          /\ tasks'[t].status = "cancelled"
       /\ \A r \in Reqs :
             (Acting(r) /\ req[r].pc = "idle" /\ req'[r].op = "status_select"
                 /\ IsBroadcast(req'[r].taskId)) =>
                /\ req'[r].pc = "done"
                /\ req'[r].outcome = IF TaskInTeam(req'[r].teamId, req'[r].taskId)
                                     THEN "denied_broadcast" ELSE "not_found"
                /\ tasks' = tasks]_vars

\* the last target's completion moved a broadcast task to 'waiting', and a
\* status_select on it was turned away
C12_Witness ==
    \E t \in DOMAIN tasks, r \in Reqs :
        /\ IsBroadcast(t)
        /\ tasks[t].status = "waiting"
        /\ req[r].pc = "done"
        /\ req[r].op = "status_select"
        /\ req[r].taskId = t
        /\ req[r].outcome = "denied_broadcast"

\* C13: in every reachable state the users with a task_completions row of a task are
\* among the users with a task_targets row of that task; a complete_task by a user
\* who is not a target of the broadcast task returns without inserting anything.
C13_CompletionsSubsetTargets ==
    [][/\ \A t \in TaskIds : task_completions'[t] \subseteq task_targets'[t]
       /\ \A r \in Reqs :
             /\ (Acting(r) /\ req[r].pc = "ct_isTarget"
                   /\ req[r].user \notin task_targets[req[r].taskId]) =>
                   /\ req'[r].pc = "done"
                   /\ req'[r].outcome = "not_target"
                   /\ task_completions' = task_completions
             /\ (Acting(r) /\ task_completions' # task_completions) =>
                   /\ req[r].op = "complete_task"
                   /\ req[r].user \in task_targets[req[r].taskId]]_vars

\* a target has completed and a non-target's complete_task was turned away
C13_Witness ==
    \E t \in DOMAIN tasks, r \in Reqs :
        /\ IsBroadcast(t)
        /\ task_completions[t] # {}
        /\ task_completions[t] \subseteq task_targets[t]
        /\ req[r].pc = "done"
        /\ req[r].op = "complete_task"
        /\ req[r].taskId = t
        /\ req[r].outcome = "not_target"
        /\ req[r].user \notin task_targets[t]

\* C14: when requests do not overlap, a complete_task by a target who already has a
\* completion row leaves task_completions as it is (one row per task and user), and a
\* complete_task that finds the task already notified sends no requester confirmation:
\* no task ever gets a second confirmation, also when the repeated completion follows
\* the one that completed the last outstanding target.
C14_RepeatedCompletion ==
    [][/\ \A t \in TaskIds : dms'[t] <= 1
       /\ \A r \in Reqs :
             /\ (Acting(r) /\ req[r].pc = "ct_upsert") =>
                   /\ req[r].user \in task_completions'[req[r].taskId]
                   /\ req[r].user \in task_completions[req[r].taskId] =>
                          /\ task_completions' = task_completions
                          /\ dbCountCompletions(req[r].taskId)' = dbCountCompletions(req[r].taskId)
             /\ (Acting(r) /\ req[r].pc = "ct_fresh" /\ tasks[req[r].taskId].notified_at) =>
                   /\ req'[r].pc \notin {"ct_notify", "ct_dm"}
                   /\ dms' = dms
             /\ (Acting(r) /\ dms' # dms) =>
                   /\ req[r].op = "complete_task"
                   /\ dms[req[r].taskId] = 0]_vars

\* the confirmation was sent when the last target completed; the same target's second
\* complete_task has run its upsert (still one row) and is about to re-read the task
C14_Witness ==
    \E t \in DOMAIN tasks, r \in Reqs :
        /\ IsBroadcast(t)
        /\ dms[t] = 1
        /\ tasks[t].notified_at
        /\ tasks[t].status = "waiting"
        /\ task_completions[t] = task_targets[t]
        /\ req[r].pc = "ct_fresh"
        /\ req[r].op = "complete_task"
        /\ req[r].taskId = t
        /\ req[r].user \in task_completions[t]

\* C15: the task that task_modal creates is 'personal' exactly when the union of the
\* selected users and the expanded group members has one user and no group was
\* selected, and 'broadcast' for every other accepted submission; a personal task's
\* assignee is that one user, a broadcast task has no assignee.
C15_Classification ==
    [][\A r \in Reqs :
          (/\ Acting(r)
           /\ req[r].pc = "idle"
           /\ req'[r].op = "task_modal"
           /\ DOMAIN tasks' # DOMAIN tasks) =>
             LET row == tasks'[req'[r].taskId]
                 one == Cardinality(req'[r].targetList) = 1
                 noGroup == req'[r].selectedGroupIds = {}
             IN /\ row.task_type \in {"personal", "broadcast"}
                /\ row.task_type = "personal" <=> (one /\ noGroup)
                /\ row.task_type = "personal" => req'[r].targetList = {row.assignee_id}
                /\ row.task_type = "broadcast" => row.assignee_id = Null]_vars

\* a submission that names one group expanding to a single user: broadcast
C15_Witness ==
    \E t \in DOMAIN tasks, r \in Reqs :
        /\ req[r].pc = "tm_targets"
        /\ req[r].taskId = t
        /\ Cardinality(req[r].targetList) = 1
        /\ req[r].selectedGroupIds # {}
        /\ tasks[t].task_type = "broadcast"

\* C16: the update of an accepted edit_task_modal submission stores the submitted due
\* date as it is, so a submission with no due date leaves due_date null whatever it was
\* before; the assignee keeps its prior value when the patch carries none (broadcast
\* task), and the description is the submitted, non-empty text; a submission with
\* empty content, or without assignee on a personal task, is dropped before any write.
C16_EditClearsDueDate ==
    [][\A r \in Reqs :
          /\ (Acting(r) /\ req[r].pc = "ed_update") =>
                LET t == req[r].taskId IN
                /\ tasks'[t].due_date = req[r].nextDue
                /\ req[r].nextDue = Null => tasks'[t].due_date = Null
                /\ req[r].nextAssignee = Null => tasks'[t].assignee_id = tasks[t].assignee_id
                /\ req[r].nextAssignee # Null => tasks'[t].assignee_id = req[r].nextAssignee
                /\ req[r].nextContent \in Contents
                /\ tasks'[t].description = req[r].nextContent
          /\ (Acting(r) /\ req[r].pc = "idle" /\ req'[r].op = "edit_task_modal") =>
                /\ tasks' = tasks
                /\ req'[r].pc \in {"done", "ed_update"}
                /\ (req'[r].pc = "ed_update" /\ IsPersonalTask(req'[r].taskId))
                       => req'[r].nextAssignee # Null
          /\ (Acting(r) /\ req[r].op = "edit_task_modal" /\ tasks' # tasks) =>
                req[r].pc = "ed_update"]_vars

\* an accepted submission without due date is about to be written to a task whose
\* due date is set; for a broadcast task it carries no assignee either
C16_Witness ==
    \E t \in DOMAIN tasks, r \in Reqs :
        /\ req[r].pc = "ed_update"
        /\ req[r].taskId = t
        /\ req[r].nextDue = Null
        /\ req[r].nextAssignee = Null
        /\ tasks[t].due_date \in DueDates

\* C17 (refuted by the code): a call of dbUpdateTaskContent whose patch has no
\* due_date field leaves the stored due_date unchanged; only a patch whose due_date is
\* explicitly null clears it.
C17_OmittedDueDateKept ==
    [][\A r \in Reqs :
          (Acting(r) /\ req[r].pc = "fn_update") =>
              LET t == req[r].taskId IN
              /\ ~HasField(req[r].patch, "due_date") => tasks'[t].due_date = tasks[t].due_date
              /\ (tasks[t].due_date # Null /\ tasks'[t].due_date = Null)
                     => <<"due_date", Null>> \in req[r].patch]_vars

C19_NoStaleOverwrite ==
    [][\A r \in Reqs :
          (/\ Acting(r)
           /\ req[r].pc \in {"cb_done", "ct_waiting"}
           /\ tasks[req[r].taskId].status \in Terminal)
          => tasks'[req[r].taskId].status = tasks[req[r].taskId].status]_vars

\* the outcomes of a request turned away for a missing task, a missing required input
\* or a failed authorization test
Rejections == {"not_found", "errors", "denied", "denied_broadcast", "not_target", "ignored"}

StoreUnchanged ==
    /\ tasks' = tasks
    /\ task_targets' = task_targets
    /\ task_completions' = task_completions
    /\ thread_cards' = thread_cards

\* C20: a handler that ends with a rejection (missing task, missing required input,
\* failed authorization) ends in its first step, or for complete_task right after its
\* target lookup, and neither step writes: tasks, task_targets, task_completions and
\* thread_cards are as they were.  A task_modal without assignee, an edit_task_modal by
\* a user without permission and a complete_task by a non-target are rejected this way.
C20_RejectedWritesNothing ==
    [][\A r \in Reqs :
          /\ (Acting(r) /\ req'[r].pc = "done" /\ req'[r].outcome \in Rejections) =>
                /\ req[r].pc \in {"idle", "ct_isTarget"}
                /\ StoreUnchanged
          /\ (Acting(r) /\ req[r].pc = "idle" /\ req'[r].pc = "ct_isTarget") => StoreUnchanged
          /\ (Acting(r) /\ req[r].pc = "ct_isTarget"
                /\ req[r].user \notin task_targets[req[r].taskId]) =>
                (req'[r].pc = "done" /\ req'[r].outcome = "not_target")
          /\ (Acting(r) /\ req[r].pc = "idle" /\ req'[r].op = "edit_task_modal"
                /\ TaskExists(req'[r].taskId)
                /\ LET task == tasks[req'[r].taskId]
                       u == req'[r].user
                   IN ~ \/ u = task.requester_user_id
                        \/ (task.task_type = "personal" /\ u = task.assignee_id)) =>
                (req'[r].pc = "done" /\ req'[r].outcome \in {"denied", "errors"})
          /\ (Acting(r) /\ req[r].pc = "idle" /\ req'[r].op = "task_modal"
                /\ DOMAIN tasks' = DOMAIN tasks) =>
                (req'[r].pc = "done" /\ req'[r].outcome = "errors")]_vars

\* an edit_task_modal by a user without permission was turned away, the task untouched
C20_Witness ==
    \E t \in DOMAIN tasks, r \in Reqs :
        /\ req[r].pc = "done"
        /\ req[r].op = "edit_task_modal"
        /\ req[r].taskId = t
        /\ req[r].outcome = "denied"
        /\ req[r].user \notin {tasks[t].requester_user_id, tasks[t].assignee_id}
        /\ tasks[t].description = "t1"

\* the upsertThreadCard call of request r ends with a thrown Slack or DB error
CardFails(r) ==
    /\ req[r].pc \in {"uc_update", "uc_post", "uc_dbwrite"}
    /\ req'[r].pc = "done"
    /\ req'[r].outcome = "card_error"

\* the upsertThreadCard call of request r edits or posts the card message ts
CardWritten(r, ts) ==
    \/ /\ req[r].pc = "uc_update"
       /\ ts = req[r].existing
       /\ edits'[ts] = edits[ts] + 1
    \/ /\ req[r].pc = "uc_post"
       /\ ts = Len(posts) + 1
       /\ Len(posts') = ts

\* C21: when the card post or edit of a handler fails, the step changes no table: the
\* task row keeps what the handler wrote before (there is no rollback).  When requests
\* do not overlap, every card refresh of a task that succeeds, also one after a failed
\* refresh for the same key, leaves the card of that key showing the task's status of
\* that moment.
C21_CardFailureKeepsRow ==
    [][\A r \in Reqs :
          /\ CardFails(r) => StoreUnchanged
          /\ \A ts \in 1..(Len(posts) + 1) :
                (req[r].taskId # 0 /\ CardWritten(r, ts)) =>
                    /\ posts'[ts] = req[r].key
                    /\ shown'[ts] = tasks'[req[r].taskId].status]_vars

\* the creation's card post failed (the only card message was posted later and never
\* edited), the task row stayed, and the status change that followed posted the card
\* with the new status
C21_Witness ==
    \E t \in DOMAIN tasks :
        /\ AllReturned
        /\ HasCardSource(tasks[t])
        /\ tasks[t].status = "waiting"
        /\ posts = <<(<<tasks[t].channel_id, tasks[t].message_ts>>)>>
        /\ edits = <<0>>
        /\ shown = <<"waiting">>

\* C22: task_type is written by the creation only: no step of any handler (status
\* change, completion, confirmation, cancel, edit, count update, reminder job) changes
\* the task_type of an existing task.
C22_TaskTypeFrozen ==
    [][\A t \in DOMAIN tasks : tasks'[t].task_type = tasks[t].task_type]_vars

\* a broadcast task that was completed by a target, had its counts updated and was
\* confirmed done by the requester
C22_Witness ==
    \E t \in DOMAIN tasks :
        /\ tasks[t].task_type = "broadcast"
        /\ tasks[t].status = "done"
        /\ tasks[t].notified_at
        /\ task_completions[t] # {}
        /\ tasks[t].total_count > 0

\* C23 (refuted by the code): in every state, a task has an assignee_id iff it is
\* personal, and has a total_count and a completed_count iff it is broadcast.
C23_TypeFields ==
    \A t \in DOMAIN tasks :
        /\ tasks[t].assignee_id # Null <=> tasks[t].task_type = "personal"
        /\ tasks[t].total_count # NullCount <=> tasks[t].task_type = "broadcast"
        /\ tasks[t].completed_count # NullCount <=> tasks[t].task_type = "broadcast"

\* the creating task_modal submission of task t has not yet inserted its target rows
SnapshotPending(t) == \E r \in Reqs : req[r].pc = "tm_targets" /\ req[r].taskId = t

\* C24: for every broadcast task the number of completion rows, and the stored
\* completed_count, never exceed total_count; and total_count is the number of
\* task_targets rows the creating submission inserted (from its insert on).
C24_CountsBounded ==
    \A t \in DOMAIN tasks :
        tasks[t].task_type = "broadcast" =>
            /\ dbCountCompletions(t) <= tasks[t].total_count
            /\ tasks[t].completed_count <= tasks[t].total_count
            /\ ~SnapshotPending(t) => tasks[t].total_count = dbCountTargets(t)

\* a broadcast task with two targets, both of whom have completed
C24_Witness ==
    \E t \in DOMAIN tasks :
        /\ tasks[t].task_type = "broadcast"
        /\ tasks[t].total_count = 2
        /\ dbCountTargets(t) = 2
        /\ dbCountCompletions(t) = 2

\* C25: the task_targets rows of a task are written once, by the task_modal submission
\* that creates the task, as the users that submission resolved; no other step of any
\* handler adds, removes or replaces a target row, an edit by the requester included.
C25_TargetsWrittenOnce ==
    [][\A t \in TaskIds :
          task_targets'[t] # task_targets[t] =>
              \E r \in Reqs :
                  /\ req[r].op = "task_modal"
                  /\ req[r].pc = "tm_targets"
                  /\ req[r].taskId = t
                  /\ task_targets[t] = {}
                  /\ task_targets'[t] = req[r].targetList]_vars

\* a broadcast task that its requester has edited still has its two target rows
C25_Witness ==
    \E t \in DOMAIN tasks :
        /\ tasks[t].task_type = "broadcast"
        /\ tasks[t].description = "t2"
        /\ task_targets[t] = {"u2", "u3"}
        /\ AllReturned

\* C26 (refuted by the code): every task row has a non-empty resolved target set: a
\* personal task has its assignee and a broadcast task never has total_count = 0, also
\* when a selected user group expands to no member or its expansion fails.
C26_NonEmptyTargets ==
    \A t \in DOMAIN tasks :
        /\ tasks[t].task_type = "personal" => tasks[t].assignee_id # Null
        /\ tasks[t].task_type = "broadcast" => tasks[t].total_count > 0

UpsertPcs == {"uc_get", "uc_update", "uc_post", "uc_dbget", "uc_dbwrite"}

\* C27: for a message of a direct-message channel no handler (creation, reaction flow,
\* completion, confirmation, cancel, status change, edit) calls upsertThreadCard: no
\* card message is posted or edited for the channel and no thread_cards row is recorded
\* for it.
C27_NoCardInDM ==
    /\ \A i \in 1..Len(posts) : posts[i][1] \notin DMChannels
    /\ \A k \in CardKeys : k[1] \in DMChannels => thread_cards[k] = <<>>
    /\ \A r \in Reqs : req[r].pc \in UpsertPcs => req[r].key[1] \notin DMChannels

\* a task created from a direct message has been edited and set to done, all handlers
\* have returned, and nothing was posted
C27_Witness ==
    \E t \in DOMAIN tasks :
        /\ tasks[t].channel_id \in DMChannels
        /\ tasks[t].description = "t2"
        /\ tasks[t].status = "done"
        /\ AllReturned
        /\ posts = <<>>

\* C28: when upsertThreadCard found a thread_cards row and its chat.update of the
\* recorded card_ts fails, the call ends with the error: the handler's catch gets it,
\* no new card message is posted and the thread_cards rows stay as they were.
C28_FailedEditSurfaces ==
    [][\A r \in Reqs :
          (/\ req[r].pc = "uc_update"
           /\ Acting(r)
           /\ edits'[req[r].existing] = edits[req[r].existing]) =>
              /\ req'[r].pc = "done"
              /\ req'[r].outcome = "card_error"
              /\ posts' = posts
              /\ shown' = shown
              /\ thread_cards' = thread_cards]_vars

\* the card of the key was posted and recorded, a later refresh found the row and its
\* edit failed: one message, never edited, one row
C28_Witness ==
    \E r \in Reqs, k \in CardKeys :
        /\ req[r].pc = "done"
        /\ req[r].outcome = "card_error"
        /\ thread_cards[k] = <<1>>
        /\ posts = <<k>>
        /\ edits = <<0>>

\* C29 (refuted by the code): the step in which a handler changes the status of a task
\* (status change, personal completion, cancellation) whose source message is in a
\* non-DM channel is followed, in the same handler, by the refresh of the thread card,
\* whichever view the action came from.
C29_RefreshAfterChange ==
    [][\A r \in Reqs :
          (/\ Acting(r)
           /\ req[r].pc \in {"ss_update", "ct_personal", "cx_cancel"}
           /\ HasCardSource(tasks[req[r].taskId])) =>
              req'[r].pc = "uc_get"]_vars

\* C30: a step of edit_task_modal changes a task row only as the handler's update, and
\* the handler reaches its update only for the requester or the assignee of a personal
\* task, or the requester of a broadcast task.  For a broadcast task the patch carries
\* no assignee whatever user the form names, and the update leaves assignee_id null.
C30_EditAuthorized ==
    [][\A r \in Reqs :
          /\ (Acting(r) /\ req[r].op = "edit_task_modal" /\ tasks' # tasks) =>
                req[r].pc = "ed_update"
          /\ (Acting(r) /\ req[r].pc = "ed_update") =>
                LET before == tasks[req[r].taskId]
                    after == tasks'[req[r].taskId]
                IN /\ before.task_type = "personal" =>
                          req[r].user \in {before.requester_user_id, before.assignee_id}
                   /\ before.task_type = "broadcast" =>
                          /\ req[r].user = before.requester_user_id
                          /\ req[r].nextAssignee = Null
                          /\ after.assignee_id = Null]_vars

\* the requester's edit of a broadcast task went through: the content is the new one
\* and the task still has no assignee
C30_Witness ==
    \E t \in DOMAIN tasks, r \in Reqs :
        /\ req[r].pc = "done"
        /\ req[r].op = "edit_task_modal"
        /\ req[r].outcome = "ok"
        /\ req[r].taskId = t
        /\ tasks[t].task_type = "broadcast"
        /\ tasks[t].description = "t2"
        /\ tasks[t].assignee_id = Null

\* the steps that run dbUpdateStatus
UpdateStatusPcs == {"ss_update", "ct_personal", "ct_waiting", "cb_done"}

\* the status a dbUpdateStatus step of request rq is called with
StatusArgument(rq) ==
    IF rq.pc = "ss_update" THEN rq.nextStatus
    ELSE IF rq.pc = "ct_waiting" THEN "waiting" ELSE "done"

\* C31: a call of dbUpdateStatus writes the new status, sets completed_at exactly when
\* the new status is 'done' and keeps the stored completed_at for every other status;
\* every other column of the row (cancelled_at, cancelled_by_user_id, notified_at, the
\* counts, assignee, due date, description) and every other row stay as they were.
C31_UpdateStatusFrame ==
    [][\A r \in Reqs :
          (Acting(r) /\ req[r].pc \in UpdateStatusPcs) =>
              LET t == req[r].taskId
                  s == StatusArgument(req[r])
              IN tasks' = [tasks EXCEPT ![t].status = s,
                                        ![t].completed_at = IF s = "done" THEN TRUE ELSE @]]_vars

\* a task that was done and then moved back to in_progress keeps its completed_at
C31_Witness ==
    \E t \in DOMAIN tasks :
        /\ tasks[t].status = "in_progress"
        /\ tasks[t].completed_at

\* C32: calcBroadcastStateLabel returns the cancelled label for status 'cancelled' and
\* the done label for status 'done', whatever the counts; for any other status it
\* returns the waiting label when total_count > 0 and completed_count >= total_count,
\* otherwise the in-progress label when completed_count > 0 and the not-started label
\* when completed_count = 0.
C32_BroadcastStateLabel ==
    \A r \in Reqs :
        (req[r].op = "calcBroadcastStateLabel" /\ req[r].pc = "done") =>
            LET task == tasks[req[r].taskId]
                label == req[r].outcome
                allDone == task.total_count > 0 /\ task.completed_count >= task.total_count
            IN /\ task.status = "cancelled" => label = LabelCancelled
               /\ task.status = "done" => label = LabelDone
               /\ task.status \notin {"cancelled", "done"} =>
                     /\ allDone => label = LabelWaiting
                     /\ (~allDone /\ task.completed_count > 0) => label = LabelInProgress
                     /\ (~allDone /\ task.completed_count = 0) => label = LabelNotStarted

\* the function has returned the done label for a done task whose targets have all
\* completed
C32_Witness ==
    \E r \in Reqs :
        /\ req[r].op = "calcBroadcastStateLabel"
        /\ req[r].pc = "done"
        /\ req[r].outcome = LabelDone
        /\ tasks[req[r].taskId].total_count = 2
        /\ tasks[req[r].taskId].completed_count = 2

\* C33: a thread card is keyed by the message it was created for, not by the thread it
\* is posted in: every thread_cards row of a message records a card posted for that
\* message, and a refresh that found a card edits only the card of its own message,
\* also when two messages of one thread both have a card.
C33_CardKeyedByMessage ==
    /\ \A k \in CardKeys :
          \A i \in 1..Len(thread_cards[k]) : posts[thread_cards[k][i]] = k
    /\ \A r \in Reqs :
          req[r].pc = "uc_update" => posts[req[r].existing] = req[r].msg

\* two messages of the same thread each have their own row and card; the card of the
\* first was refreshed, the card of the second was never edited
C33_Witness ==
    \E a, b \in Sources :
        LET ka == <<a.channel_id, a.message_ts>>
            kb == <<b.channel_id, b.message_ts>>
        IN /\ a.message_ts # b.message_ts
           /\ a.thread_ts = b.thread_ts
           /\ Len(thread_cards[ka]) = 1
           /\ Len(thread_cards[kb]) = 1
           /\ thread_cards[ka][1] # thread_cards[kb][1]
           /\ edits[thread_cards[ka][1]] > 0
           /\ edits[thread_cards[kb][1]] = 0
           /\ shown[thread_cards[kb][1]] = PromptBlocks

C35_TeamScoped ==
    [][\A r \in Reqs :
          /\ (/\ req[r].pc = "idle"
              /\ req'[r].pc # "idle"
              /\ req'[r].teamId # Null
              /\ TaskExists(req'[r].taskId)
              /\ tasks[req'[r].taskId].team_id # req'[r].teamId) =>
                 /\ req'[r].pc = "done"
                 /\ req'[r].outcome \in {"not_found", "errors"}
                 /\ StoreUnchanged
          /\ (req'[r].teamId # Null /\ req'[r].pc \notin {"idle", "done"}) =>
                 /\ TaskExists(req'[r].taskId)
                 /\ tasks'[req'[r].taskId].team_id = req'[r].teamId]_vars

\* the requester's own action on their open task, sent with the other team's id, has
\* returned without finding the task
C35_Witness ==
    \E r \in Reqs :
        /\ req[r].pc = "done"
        /\ req[r].outcome = "not_found"
        /\ TaskExists(req[r].taskId)
        /\ req[r].teamId # tasks[req[r].taskId].team_id
        /\ req[r].user = tasks[req[r].taskId].requester_user_id
        /\ tasks[req[r].taskId].status = "in_progress"

\* C36 (refuted by the code): postRequesterConfirmDM is never sent for a broadcast task
\* that complete_task found 'done' or 'cancelled' when it read the row after the last
\* target's completion.
C36_NoPromptForClosed ==
    [][\A r \in Reqs :
          (req[r].pc = "ct_dm" /\ Acting(r)) => req[r].fresh_status \notin Terminal]_vars

\* C37: a broadcast task is 'waiting' only when every recorded target of the task has
\* a task_completions row: the completions equal the targets and total_count > 0.
C37_WaitingMeansAllCompleted ==
    \A t \in DOMAIN tasks :
        (IsBroadcast(t) /\ tasks[t].status = "waiting") =>
            /\ task_completions[t] = task_targets[t]
            /\ tasks[t].total_count > 0

\* a broadcast task with two targets is waiting, both targets have completed
C37_Witness ==
    \E t \in DOMAIN tasks :
        /\ IsBroadcast(t)
        /\ tasks[t].status = "waiting"
        /\ Cardinality(task_targets[t]) = 2
        /\ task_completions[t] = task_targets[t]

\* C38 (refuted by the code): cancelled_by_user_id is set exactly when the status is
\* 'cancelled', and when set it is the task's requester.
C38_CancelledByIffCancelled ==
    \A t \in DOMAIN tasks :
        /\ (tasks[t].cancelled_by_user_id # Null) <=> (tasks[t].status = "cancelled")
        /\ tasks[t].cancelled_by_user_id # Null =>
               tasks[t].cancelled_by_user_id = tasks[t].requester_user_id

\* C39 (refuted by the code): the reaction flow creates at most one task per message:
\* two reaction_task_confirm_create clicks that each created a task row, interleaved
\* clicks included, did so for two different messages.
C39_ReactionCreatesOnce ==
    \A r1, r2 \in Reqs :
        (/\ req[r1].op = "reaction_task_confirm_create"
         /\ req[r2].op = "reaction_task_confirm_create"
         /\ req[r1].taskId # 0
         /\ req[r2].taskId # 0
         /\ req[r1].taskId # req[r2].taskId) =>
            <<tasks[req[r1].taskId].channel_id, tasks[req[r1].taskId].message_ts>>
                # <<tasks[req[r2].taskId].channel_id, tasks[req[r2].taskId].message_ts>>

\* C40 (refuted by the code): a thread card stands for one task: no two different tasks
\* have their card under the same thread_cards row.
C40_OneTaskPerCard ==
    \A t1, t2 \in DOMAIN tasks :
        (/\ t1 # t2
         /\ HasCardSource(tasks[t1])
         /\ tasks[t1].channel_id = tasks[t2].channel_id
         /\ tasks[t1].message_ts = tasks[t2].message_ts) =>
            thread_cards[<<tasks[t1].channel_id, tasks[t1].message_ts>>] = <<>>

====
